---------------------------- MODULE Spec2Model ----------------------------
(***************************************************************************)
(* A model of micropyserver's utils.py: the response formatter             *)
(* (send_response, send_binary_response) and the request parser            *)
(* (get_request_method, get_request_path, get_request_query_string,        *)
(* parse_query_string, get_request_query_params, get_request_post_params,  *)
(* get_request_body, unquote).                                             *)
(*                                                                         *)
(* A Python str is a sequence of one-character strings; the characters     *)
(* space, carriage return and line feed are written SP, CR and LF.  The    *)
(* texts the response formatter builds by "+" are sequences of the         *)
(* fragments that are concatenated.  A Python value is a record with a     *)
(* tag ("str", "dict", "None" or "raise").                                 *)
(***************************************************************************)
EXTENDS Integers, Sequences, FiniteSets, TLC

VARIABLES
    \* ---- response formatter: one call of send_response/send_binary_response
    pc,              \* the statement the call executes next, "done" or "raised"
    func,            \* which of the two functions is called
    http_code,       \* argument http_code
    content_type,    \* argument content_type
    response,        \* argument response (the body)
    file_size,       \* argument file_size (send_binary_response only)
    extend_headers,  \* argument extend_headers: [isNone, list]
    hdr,             \* position of the for loop in extend_headers
    sent,            \* what the transport has accepted, in order
    fault,           \* the exception the call raised, or "none"
    \* ---- request parser: one call of a parsing function
    fn,              \* the function applied, "none" before the call
    arg,             \* its input: [kind, text, expected]
    ret              \* the value it returned or the exception it raised

sendVars  == <<pc, func, http_code, content_type, response, file_size,
               extend_headers, hdr, sent, fault>>
parseVars == <<fn, arg, ret>>
vars      == <<sendVars, parseVars>>

---------------------------------------------------------------------------
(* Bounds of the model *)

MaxBodyLen  == 2    \* longest response body
MaxFileSize == 2    \* largest file_size argument
MaxHeaders  == 2    \* longest extend_headers list
MaxSegments == 2    \* most "/..." groups in a request path
MaxQueryLen == 4    \* longest input of parse_query_string
MaxStringLen == 4   \* longest input of unquote

---------------------------------------------------------------------------
(* Generic helpers *)

SeqsUpTo(S, n) == UNION {[1..k -> S] : k \in 0..n}

SetMin(S) == CHOOSE x \in S : \A y \in S : x <= y

SetMax(S) == CHOOSE x \in S : \A y \in S : x >= y

Range(s) == {s[i] : i \in 1..Len(s)}

\* str(n) for a natural number n: its decimal digits.
RECURSIVE IntToStr(_)
IntToStr(n) ==
    LET d == <<"0", "1", "2", "3", "4", "5", "6", "7", "8", "9">>
    IN  IF n < 10 THEN <<d[n + 1]>>
        ELSE IntToStr(n \div 10) \o <<d[(n % 10) + 1]>>

---------------------------------------------------------------------------
(* HTTP response codes *)

HTTP_CODES ==
    100 :> "Continue" @@ 101 :> "Switching protocols" @@ 102 :> "Processing" @@
    200 :> "Ok" @@ 201 :> "Created" @@ 202 :> "Accepted" @@
    203 :> "Non authoritative information" @@ 204 :> "No content" @@
    205 :> "Reset content" @@ 206 :> "Partial content" @@
    207 :> "Multi status" @@ 208 :> "Already reported" @@ 226 :> "Im used" @@
    300 :> "Multiple choices" @@ 301 :> "Moved permanently" @@
    302 :> "Found" @@ 303 :> "See other" @@ 304 :> "Not modified" @@
    305 :> "Use proxy" @@ 307 :> "Temporary redirect" @@
    308 :> "Permanent redirect" @@
    400 :> "Bad request" @@ 401 :> "Unauthorized" @@
    402 :> "Payment required" @@ 403 :> "Forbidden" @@ 404 :> "Not found" @@
    405 :> "Method not allowed" @@ 406 :> "Not acceptable" @@
    407 :> "Proxy authentication required" @@ 408 :> "Request timeout" @@
    409 :> "Conflict" @@ 410 :> "Gone" @@ 411 :> "Length required" @@
    412 :> "Precondition failed" @@ 413 :> "Request entity too large" @@
    414 :> "Request uri too long" @@ 415 :> "Unsupported media type" @@
    416 :> "Request range not satisfiable" @@ 417 :> "Expectation failed" @@
    418 :> "I am a teapot" @@ 422 :> "Unprocessable entity" @@
    423 :> "Locked" @@ 424 :> "Failed dependency" @@
    426 :> "Upgrade required" @@ 428 :> "Precondition required" @@
    429 :> "Too many requests" @@
    431 :> "Request header fields too large" @@
    500 :> "Internal server error" @@ 501 :> "Not implemented" @@
    502 :> "Bad gateway" @@ 503 :> "Service unavailable" @@
    504 :> "Gateway timeout" @@ 505 :> "Http version not supported" @@
    506 :> "Variant also negotiates" @@ 507 :> "Insufficient storage" @@
    508 :> "Loop detected" @@ 510 :> "Not extended" @@
    511 :> "Network authentication required"

\* HTTP_CODES.get(code): the phrase, or Python's None for an absent key.
HttpCodesGetAsNoneText(code) ==
    IF code \in DOMAIN HTTP_CODES
    THEN [isNone |-> FALSE, text |-> HTTP_CODES[code]]
    ELSE [isNone |-> FALSE, text |-> "None"]

HttpCodesGet(code) ==
    IF code \in DOMAIN HTTP_CODES
    THEN [isNone |-> FALSE, text |-> HTTP_CODES[code]]
    ELSE [isNone |-> TRUE, text |-> ""]

\* "HTTP/1.0 " + str(http_code) + " " + HTTP_CODES.get(http_code) + "\r\n":
\* str + None raises TypeError while the argument of server.send is evaluated.
StatusLine(code) ==
    LET reason == HttpCodesGet(code)
    IN  IF reason.isNone
        THEN [raises |-> TRUE, exc |-> "TypeError", text |-> <<>>]
        ELSE [raises |-> FALSE, exc |-> "none",
              text |-> <<"HTTP/1.0 ">> \o IntToStr(code)
                       \o <<" ", reason.text, "\r\n">>]

\* "Content-Type:" + content_type + "\r\n"
ContentTypeLine(ct) == <<"Content-Type:", ct, "\r\n">>

\* A Content-Length computed from the body instead of taken from file_size.
ContentLengthLineOfBody(size) ==
    <<"Content-Length:">> \o IntToStr(Len(response)) \o <<"\r\n">>

\* "Content-Length:" + str(file_size) + "\r\n"
ContentLengthLine(size) == <<"Content-Length:">> \o IntToStr(size) \o <<"\r\n">>

\* header + "\r\n"
HeaderLine(header) == header \o <<"\r\n">>

BlankLine == <<"\r\n">>


---------------------------------------------------------------------------
(* Response formatter: the calls on the transport *)

\* The exception a failing transport write raises.
TransportError == "OSError"

Write(op, data) == [op |-> op, data |-> data]

\* A call that swallows the transport's exception and carries on.
TransportCallSwallow(op, data, next, nextHdr) ==
    \/ /\ sent' = Append(sent, Write(op, data))
       /\ pc' = next
       /\ hdr' = nextHdr
       /\ fault' = fault
    \/ /\ sent' = sent
       /\ pc' = next
       /\ hdr' = nextHdr
       /\ fault' = fault

\* server.send(data) / server.send_binary(data): the transport accepts the
\* write and the call goes on to the next statement, or the transport raises
\* and, no statement of utils.py catching it, the call ends with that
\* exception.
TransportCall(op, data, next, nextHdr) ==
    \/ /\ sent' = Append(sent, Write(op, data))
       /\ pc' = next
       /\ hdr' = nextHdr
       /\ fault' = fault
    \/ /\ sent' = sent
       /\ pc' = "raised"
       /\ hdr' = hdr
       /\ fault' = TransportError

\* A loop that walks extend_headers from its last element to its first.
HeaderAtReversed(i) ==
    extend_headers.list[Len(extend_headers.list) + 1 - i]

\* for header in extend_headers: the header of the i-th iteration.
HeaderAt(i) ==
    extend_headers.list[i]

\* "if extend_headers is not None: for header in extend_headers:" has an
\* iteration number i left to run.
HasHeader(i) == ~extend_headers.isNone /\ i <= Len(extend_headers.list)

argsUnchanged ==
    UNCHANGED <<func, http_code, content_type, response, file_size,
                extend_headers, parseVars>>

\* ---- send_response

SendResponse_L114 ==
    /\ pc = "sr114"
    /\ LET line == StatusLine(http_code)
       IN  IF line.raises
           THEN /\ pc' = "raised"
                /\ fault' = line.exc
                /\ UNCHANGED <<sent, hdr>>
           ELSE TransportCall("send", line.text, "sr115", hdr)
    /\ argsUnchanged

SendResponse_L115 ==
    /\ pc = "sr115"
    /\ TransportCall("send", ContentTypeLine(content_type),
                     IF HasHeader(1) THEN "sr118" ELSE "sr119", 1)
    /\ argsUnchanged

SendResponse_L118 ==
    /\ pc = "sr118"
    /\ TransportCall("send", HeaderLine(HeaderAt(hdr)),
                     IF HasHeader(hdr + 1) THEN "sr118" ELSE "sr119", hdr + 1)
    /\ argsUnchanged

SendResponse_L119 ==
    /\ pc = "sr119"
    /\ TransportCall("send", BlankLine, "sr120", hdr)
    /\ argsUnchanged

SendResponse_L120 ==
    /\ pc = "sr120"
    /\ TransportCall("send", response, "done", hdr)
    /\ argsUnchanged

\* ---- send_binary_response

SendBinaryResponse_L125 ==
    /\ pc = "sb125"
    /\ LET line == StatusLine(http_code)
       IN  IF line.raises
           THEN /\ pc' = "raised"
                /\ fault' = line.exc
                /\ UNCHANGED <<sent, hdr>>
           ELSE TransportCall("send", line.text, "sb126", hdr)
    /\ argsUnchanged

SendBinaryResponse_L126 ==
    /\ pc = "sb126"
    /\ TransportCall("send", ContentTypeLine(content_type), "sb127", hdr)
    /\ argsUnchanged

SendBinaryResponse_L127 ==
    /\ pc = "sb127"
    /\ TransportCall("send", ContentLengthLine(file_size),
                     IF HasHeader(1) THEN "sb130" ELSE "sb131", 1)
    /\ argsUnchanged

SendBinaryResponse_L130 ==
    /\ pc = "sb130"
    /\ TransportCall("send", HeaderLine(HeaderAt(hdr)),
                     IF HasHeader(hdr + 1) THEN "sb130" ELSE "sb131", hdr + 1)
    /\ argsUnchanged

SendBinaryResponse_L131 ==
    /\ pc = "sb131"
    /\ TransportCall("send", BlankLine, "sb132", hdr)
    /\ argsUnchanged

SendBinaryResponse_L132 ==
    /\ pc = "sb132"
    /\ TransportCall("send_binary", response, "done", hdr)
    /\ argsUnchanged

\* ---- the inputs of a call

\* 200 and 404 are keys of HTTP_CODES, 299 is not.
HttpCodeInputs == {200, 404, 299}

ContentTypeInputs == {"text/html", "application/octet-stream"}

\* The units of a body: characters of a text, bytes of a binary body.
BodyUnits == {"h", "i"}

BodyInputs == SeqsUpTo(BodyUnits, MaxBodyLen)

HeaderInputs == {<<"X-A:1">>, <<"X-B:2">>}

ExtendHeadersInputs ==
    {[isNone |-> TRUE, list |-> <<>>]}
    \cup {[isNone |-> FALSE, list |-> l] : l \in SeqsUpTo(HeaderInputs, MaxHeaders)}

NoCall == [kind |-> "none", text |-> <<>>, expected |-> <<>>]

NoValue == [tag |-> "none", str |-> <<>>, map |-> <<>>, exc |-> "none"]

parseIdle ==
    /\ fn = "none"
    /\ arg = NoCall
    /\ ret = NoValue

Init ==
    /\ func \in {"send_response", "send_binary_response"}
    /\ pc = IF func = "send_response" THEN "sr114" ELSE "sb125"
    /\ http_code \in HttpCodeInputs
    /\ content_type \in ContentTypeInputs
    /\ response \in BodyInputs
    /\ file_size \in IF func = "send_response" THEN {0} ELSE 0..MaxFileSize
    /\ extend_headers \in ExtendHeadersInputs
    /\ hdr = 1
    /\ sent = <<>>
    /\ fault = "none"
    /\ parseIdle

Next ==
    \/ SendResponse_L114
    \/ SendResponse_L115
    \/ SendResponse_L118
    \/ SendResponse_L119
    \/ SendResponse_L120
    \/ SendBinaryResponse_L125
    \/ SendBinaryResponse_L126
    \/ SendBinaryResponse_L127
    \/ SendBinaryResponse_L130
    \/ SendBinaryResponse_L131
    \/ SendBinaryResponse_L132

Spec == Init /\ [][Next]_vars


---------------------------------------------------------------------------
(* Response formatter: properties *)

IsPrefix(p, q) == Len(p) <= Len(q) /\ SubSeq(q, 1, Len(p)) = p

KnownCode == http_code \in DOMAIN HTTP_CODES

\* The extra headers in the supplied order, none for None.
SuppliedHeaders == IF extend_headers.isNone THEN <<>> ELSE extend_headers.list

\* The emission sequence the specification gives for the call, written out
\* from the specification's text and not from the operators of the model.
EmissionSequence ==
    LET status  == <<[op |-> "send",
                      data |-> <<"HTTP/1.0 ">> \o IntToStr(http_code)
                               \o <<" ", HTTP_CODES[http_code], "\r\n">>]>>
        ctype   == <<[op |-> "send",
                      data |-> <<"Content-Type:", content_type, "\r\n">>]>>
        clength == <<[op |-> "send",
                      data |-> <<"Content-Length:">> \o IntToStr(file_size)
                               \o <<"\r\n">>]>>
        extra   == [i \in 1..Len(SuppliedHeaders) |->
                      [op |-> "send", data |-> SuppliedHeaders[i] \o <<"\r\n">>]]
        blank   == <<[op |-> "send", data |-> <<"\r\n">>]>>
    IN  IF func = "send_response"
        THEN status \o ctype \o extra \o blank
             \o <<[op |-> "send", data |-> response]>>
        ELSE status \o ctype \o clength \o extra \o blank
             \o <<[op |-> "send_binary", data |-> response]>>

\* C1: for a status code of HTTP_CODES, a call that returns has made exactly
\* the writes status line, Content-Type, (Content-Length for the binary
\* call,) each extra header in the supplied order, the blank line and the
\* body (through send_binary for the binary call), and no other write.
C1_EmissionOrder ==
    (KnownCode /\ pc = "done") => sent = EmissionSequence

\* A call with two different extra headers has returned.
C1_Witness ==
    /\ pc = "done"
    /\ KnownCode
    /\ Len(SuppliedHeaders) = 2
    /\ SuppliedHeaders[1] # SuppliedHeaders[2]
    /\ Len(sent) = IF func = "send_response" THEN 6 ELSE 7

\* The Content-Length line a call of send_binary_response has written.
WrittenContentLength == sent[3].data

ContentLengthOf(n) == <<"Content-Length:">> \o IntToStr(n) \o <<"\r\n">>

\* C2 as stated: the number in the Content-Length header is the byte length
\* of the body the same call hands to send_binary.
C2_LengthOfBody ==
    (func = "send_binary_response" /\ pc = "done")
        => /\ sent[Len(sent)].op = "send_binary"
           /\ WrittenContentLength = ContentLengthOf(Len(sent[Len(sent)].data))

\* C2 amended: the number in the Content-Length header is the file_size
\* argument of the call; the body handed to send_binary is the response
\* argument, and the header gives its byte length exactly when the caller
\* passed file_size equal to that length.
C2_LengthIsFileSize ==
    (func = "send_binary_response" /\ pc = "done")
        => /\ WrittenContentLength = ContentLengthOf(file_size)
           /\ sent[Len(sent)] = [op |-> "send_binary", data |-> response]
           /\ (WrittenContentLength = ContentLengthOf(Len(response)))
                  <=> (file_size = Len(response))

\* A binary call has returned whose file_size is not the length of its body.
C2_Witness ==
    /\ func = "send_binary_response"
    /\ pc = "done"
    /\ file_size # Len(response)
    /\ Len(response) > 0

\* C9: a transport failure ends the call with the transport's exception:
\* what the transport has accepted is at every moment a prefix of the
\* emission sequence, after a failure it is a proper prefix and no step of
\* the call is left to run (no retry, no later write), and a call that
\* returns has made every write.
C9_FailurePropagates ==
    /\ KnownCode => IsPrefix(sent, EmissionSequence)
    /\ fault = TransportError
          => /\ pc = "raised"
             /\ ~ENABLED Next
             /\ Len(sent) < Len(EmissionSequence)
    /\ (KnownCode /\ pc = "done")
          => fault = "none" /\ Len(sent) = Len(EmissionSequence)

\* A write failed after the transport had accepted the first writes.
C9_Witness ==
    /\ pc = "raised"
    /\ fault = TransportError
    /\ Len(sent) >= 2

\* C10: with a status code that is not a key of HTTP_CODES the call raises
\* before its first write: the transport receives nothing.
C10_UnknownCodeWritesNothing ==
    ~KnownCode
        => /\ sent = <<>>
           /\ pc \in {"sr114", "sb125", "raised"}
           /\ pc = "raised" => fault = "TypeError"

\* A call with an unknown status code has raised.
C10_Witness ==
    /\ ~KnownCode
    /\ pc = "raised"
    /\ fault = "TypeError"
    /\ sent = <<>>


---------------------------------------------------------------------------
(* Request parser: Python values and strings *)

EmptyMap == <<>>

Str(s)   == [tag |-> "str", str |-> s, map |-> EmptyMap, exc |-> "none"]

Dict(m)  == [tag |-> "dict", str |-> <<>>, map |-> m, exc |-> "none"]

None     == [tag |-> "None", str |-> <<>>, map |-> EmptyMap, exc |-> "none"]

Raise(e) == [tag |-> "raise", str |-> <<>>, map |-> EmptyMap, exc |-> e]

\* len(v) of a str or a dict.
PyLen(v) == IF v.tag = "dict" THEN Cardinality(DOMAIN v.map) ELSE Len(v.str)

\* s.split(sep): the pieces of s between the occurrences of sep, found from
\* left to right without overlap; empty pieces are kept.
RECURSIVE StrSplit(_, _)
StrSplit(s, sep) ==
    LET n    == Len(sep)
        hits == {i \in 1..(Len(s) - n + 1) : SubSeq(s, i, i + n - 1) = sep}
    IN  IF hits = {} THEN <<s>>
        ELSE LET i == SetMin(hits)
             IN  <<SubSeq(s, 1, i - 1)>>
                 \o StrSplit(SubSeq(s, i + n, Len(s)), sep)

\* The character classes of the patterns.
Upper == {"A", "B", "C", "D", "E", "F", "G", "H", "I", "J", "K", "L", "M",
          "N", "O", "P", "Q", "R", "S", "T", "U", "V", "W", "X", "Y", "Z"}

Lower == {"a", "b", "c", "d", "e", "f", "g", "h", "i", "j", "k", "l", "m",
          "n", "o", "p", "q", "r", "s", "t", "u", "v", "w", "x", "y", "z"}

Digit == {"0", "1", "2", "3", "4", "5", "6", "7", "8", "9"}

\* [-a-zA-Z0-9_.]
PathChar == {"-", "_", "."} \cup Lower \cup Upper \cup Digit

\* \s, among ASCII characters
Whitespace == {"SP", "TAB", "LF", "CR", "FF", "VT"}

\* "." without DOTALL matches every character but the line feed.
IsDot(c) == c # "LF"

CRLF == <<"CR", "LF">>

\* The last index of the longest run of characters of class C that starts
\* at index i of s (i - 1 when the run is empty): a greedy C*.
RunEnd(s, i, C) ==
    LET stops == {j \in i..Len(s) : s[j] \notin C}
    IN  IF stops = {} THEN Len(s) ELSE SetMin(stops) - 1

\* lines = request.split("\r\n"); lines[0]
FirstLine(request) == StrSplit(request, CRLF)[1]

---------------------------------------------------------------------------
(* Request parser: the functions *)

\* re.search("^([A-Z]+)", lines[0]).group(1)
get_request_method(request) ==
    LET line == FirstLine(request)
        u    == RunEnd(line, 1, Upper)
    IN  IF u = 0 THEN Raise("AttributeError")
        ELSE Str(SubSeq(line, 1, u))

\* The iterations of (/[-a-zA-Z0-9_.]*)* from index i on: group 1 is what
\* the last iteration captured, None when there was no iteration.
RECURSIVE PathGroup(_, _, _)
PathGroup(line, i, last) ==
    IF i <= Len(line) /\ line[i] = "/"
    THEN LET e == RunEnd(line, i + 1, PathChar)
         IN  PathGroup(line, e + 1, Str(SubSeq(line, i, e)))
    ELSE last

\* re.search("^[A-Z]+\\s+(/[-a-zA-Z0-9_.]*)*", lines[0]).group(1)
get_request_path(request) ==
    LET line == FirstLine(request)
        u    == RunEnd(line, 1, Upper)
        w    == RunEnd(line, u + 1, Whitespace)
    IN  IF u = 0 \/ w = u THEN Raise("AttributeError")
        ELSE PathGroup(line, w + 1, None)

\* The ends j of the matches of "\?(.+)\s" that start at the "?" at index i:
\* i+1..j are characters "." matches, at least one, and j+1 is whitespace.
QueryMatchEnds(line, i) ==
    {j \in (i + 1)..(Len(line) - 1) :
        /\ \A k \in (i + 1)..j : IsDot(line[k])
        /\ line[j + 1] \in Whitespace}

\* re.search("\\?(.+)\\s", lines[0]): the leftmost "?" with a match, and
\* for it the longest (.+), which is greedy.
get_request_query_string(request) ==
    LET line   == FirstLine(request)
        starts == {i \in 1..Len(line) :
                      line[i] = "?" /\ QueryMatchEnds(line, i) # {}}
    IN  IF starts = {} THEN Str(<<>>)
        ELSE LET i == SetMin(starts)
                 j == SetMax(QueryMatchEnds(line, i))
             IN  Str(SubSeq(line, i + 1, j))

\* The loop of parse_query_string over query_params_string from index i on.
RECURSIVE QueryParams(_, _, _)
QueryParams(params, i, query_params) ==
    IF i > Len(params) THEN query_params
    ELSE LET param == StrSplit(params[i], <<"=">>)
             key   == param[1]
             value == IF Len(param) = 1 THEN <<>> ELSE param[2]
         IN  QueryParams(params, i + 1, (key :> value) @@ query_params)

\* parse_query_string(query_string); the empty dict get_request_body may
\* hand over has length 0 as well, any other non-str has no split.
parse_query_string(query_string) ==
    IF PyLen(query_string) = 0 THEN Dict(EmptyMap)
    ELSE IF query_string.tag # "str" THEN Raise("AttributeError")
    ELSE Dict(QueryParams(StrSplit(query_string.str, <<"&">>), 1, EmptyMap))

get_request_query_params(request) ==
    parse_query_string(get_request_query_string(request))

\* re.search("\r\n\r\n(.+)", request): the leftmost separator that a
\* character "." matches follows, and the longest run of such characters.
get_request_body(request) ==
    LET starts == {p \in 1..(Len(request) - 4) :
                      /\ SubSeq(request, p, p + 3) = CRLF \o CRLF
                      /\ IsDot(request[p + 4])}
    IN  IF starts = {} THEN Dict(EmptyMap)
        ELSE LET p == SetMin(starts)
                 e == RunEnd(request, p + 4, {c \in Range(request) : IsDot(c)})
             IN  Str(SubSeq(request, p + 4, e))

get_request_post_params(request, expected_method) ==
    LET request_method == get_request_method(request)
    IN  IF request_method.tag = "raise" THEN request_method
        ELSE IF request_method.str # expected_method THEN None
        ELSE parse_query_string(get_request_body(request))

---------------------------------------------------------------------------
(* Percent-decoder *)

\* The ASCII characters in the order of their codes, from 0 to 127; the
\* control characters, the space, the double quote, the backslash, the
\* backtick and DEL go by their names.
Ascii ==
    <<
       "NUL", "SOH", "STX", "ETX", "EOT", "ENQ", "ACK", "BEL",
       "BS", "TAB", "LF", "VT", "FF", "CR", "SO", "SI",
       "DLE", "DC1", "DC2", "DC3", "DC4", "NAK", "SYN", "ETB",
       "CAN", "EM", "SUB", "ESC", "FS", "GS", "RS", "US",
       "SP", "!", "DQUOTE", "#", "$", "%", "&", "'",
       "(", ")", "*", "+", ",", "-", ".", "/",
       "0", "1", "2", "3", "4", "5", "6", "7",
       "8", "9", ":", ";", "<", "=", ">", "?",
       "@", "A", "B", "C", "D", "E", "F", "G",
       "H", "I", "J", "K", "L", "M", "N", "O",
       "P", "Q", "R", "S", "T", "U", "V", "W",
       "X", "Y", "Z", "[", "BACKSLASH", "]", "^", "_",
       "BACKTICK", "a", "b", "c", "d", "e", "f", "g",
       "h", "i", "j", "k", "l", "m", "n", "o",
       "p", "q", "r", "s", "t", "u", "v", "w",
       "x", "y", "z", "{", "|", "}", "~", "DEL"
    >>

\* ord(c)
Ord(c) == (CHOOSE i \in 1..Len(Ascii) : Ascii[i] = c) - 1

\* string.encode("utf-8") of an ASCII string: the codes of its characters.
Utf8Encode(string) == [k \in 1..Len(string) |-> Ord(string[k])]

\* ord("%"), the separator of string.split(b"%")
Percent == 37

\* The value of a hexadecimal digit given by its character code, -1 for any
\* other character.
HexValue(c) ==
    IF c \in 48..57 THEN c - 48
    ELSE IF c \in 97..102 THEN c - 87
    ELSE IF c \in 65..70 THEN c - 55
    ELSE -1

\* int(pair, 16) for the at most two bytes item[:2], over bytes that are
\* hexadecimal digits, "%" or letters: a ValueError unless pair is one or
\* two hexadecimal digits.
IntBase16(pair) ==
    IF Len(pair) = 0 \/ \E k \in 1..Len(pair) : HexValue(pair[k]) < 0
    THEN [raises |-> TRUE, exc |-> "ValueError", value |-> 0]
    ELSE [raises |-> FALSE, exc |-> "none",
          value |-> IF Len(pair) = 1 THEN HexValue(pair[1])
                    ELSE 16 * HexValue(pair[1]) + HexValue(pair[2])]

\* bytes.decode("utf-8") of bytes that are all ASCII; a byte above 0x7F is
\* taken to be invalid (the model's inputs produce none).
Utf8Decode(bytes) ==
    IF \E k \in 1..Len(bytes) : bytes[k] > 127
    THEN Raise("UnicodeDecodeError")
    ELSE Str([k \in 1..Len(bytes) |-> Ascii[bytes[k] + 1]])

\* The loop of unquote over bits from index i on.  "except KeyError" does
\* not catch the ValueError of int(), which leaves the function.
RECURSIVE UnquoteBits(_, _, _)
UnquoteBits(bits, i, res) ==
    IF i > Len(bits) THEN Utf8Decode(res)
    ELSE LET item == bits[i]
             byte == IntBase16(SubSeq(item, 1, IF Len(item) < 2 THEN Len(item) ELSE 2))
         IN  IF byte.raises THEN Raise(byte.exc)
             ELSE UnquoteBits(bits, i + 1,
                              Append(res, byte.value) \o SubSeq(item, 3, Len(item)))

unquote(string) ==
    IF Len(string) = 0 THEN Str(<<>>)
    ELSE LET bytes == Utf8Encode(string)
             bits  == StrSplit(bytes, <<Percent>>)
         IN  IF Len(bits) = 1 THEN Utf8Decode(bytes)
             ELSE UnquoteBits(bits, 2, bits[1])

---------------------------------------------------------------------------
(* Request parser: one call of one function on one input *)

Concat(a, b) == a \o b

\* The paths of up to n groups, each a "/" and what follows it.
RECURSIVE PathsOf(_)
PathsOf(n) ==
    IF n = 0 THEN {<<>>}
    ELSE PathsOf(n - 1)
         \cup {p \o g : p \in PathsOf(n - 1),
                        g \in {<<"/">>, <<"/", "a">>, <<"/", "b", ".", "c">>}}

\* GET and POST, and a token that is no uppercase method.
MethodInputs == {<<"G", "E", "T">>, <<"P", "O", "S", "T">>, <<"g", "e", "t">>}

QueryInputs ==
    { <<>>,
      <<"?">>,
      <<"?", "x", "=", "1">>,
      <<"?", "x", "=", "1", "&", "y", "=", "2">>,
      <<"?", "x", "SP", "y">> }

HttpVersion == <<"H", "T", "T", "P", "/", "1", ".", "0">>

\* What follows the request target on the first line.
VersionInputs == {<<>>, <<"SP">> \o HttpVersion, <<"SP">> \o HttpVersion \o <<"SP">>}

BodyTextInputs ==
    { <<>>,
      <<"a", "=", "1">>,
      <<"a", "=", "1", "&", "b", "=", "2">>,
      <<"a", "=", "1", "LF", "b", "=", "2">>,
      <<"a", "=", "1", "CR", "LF", "b">>,
      <<"LF", "a", "=", "1">> }

HostHeader == <<"H", "o", "s", "t", ":", "SP", "x">>

\* What follows the first line: nothing, or the headers, the blank line and
\* a body.
RestInputs ==
    {<<>>}
    \cup {CRLF \o CRLF \o b : b \in BodyTextInputs}
    \cup {CRLF \o HostHeader \o CRLF \o CRLF \o b : b \in BodyTextInputs}

RequestInputs ==
    {m \o <<"SP">> \o p \o q \o v \o r :
        m \in MethodInputs, p \in PathsOf(MaxSegments), q \in QueryInputs,
        v \in VersionInputs, r \in RestInputs}

ExpectedMethodInputs == {<<"G", "E", "T">>, <<"P", "O", "S", "T">>}

QueryStringInputs == SeqsUpTo({"a", "b", "=", "&"}, MaxQueryLen)

UnquoteInputs == SeqsUpTo({"%", "2", "5", "F", "z"}, MaxStringLen)

ParserInputs ==
    {[kind |-> "request", text |-> r, expected |-> e] :
        r \in RequestInputs, e \in ExpectedMethodInputs}
    \cup {[kind |-> "query_string", text |-> q, expected |-> <<>>] :
        q \in QueryStringInputs}
    \cup {[kind |-> "string", text |-> t, expected |-> <<>>] :
        t \in UnquoteInputs}

Apply(name, value) ==
    /\ fn = "none"
    /\ fn' = name
    /\ ret' = value
    /\ UNCHANGED <<arg, sendVars>>

GetRequestMethod ==
    arg.kind = "request" /\ Apply("get_request_method", get_request_method(arg.text))

GetRequestPath ==
    arg.kind = "request" /\ Apply("get_request_path", get_request_path(arg.text))

GetRequestQueryString ==
    /\ arg.kind = "request"
    /\ Apply("get_request_query_string", get_request_query_string(arg.text))

GetRequestQueryParams ==
    /\ arg.kind = "request"
    /\ Apply("get_request_query_params", get_request_query_params(arg.text))

GetRequestPostParams ==
    /\ arg.kind = "request"
    /\ Apply("get_request_post_params",
             get_request_post_params(arg.text, arg.expected))

GetRequestBody ==
    arg.kind = "request" /\ Apply("get_request_body", get_request_body(arg.text))

ParseQueryString ==
    /\ arg.kind = "query_string"
    /\ Apply("parse_query_string", parse_query_string(Str(arg.text)))

Unquote ==
    arg.kind = "string" /\ Apply("unquote", unquote(arg.text))

InitParser ==
    /\ fn = "none"
    /\ arg \in ParserInputs
    /\ ret = NoValue
    /\ pc = "idle"
    /\ func = "none"
    /\ http_code = 200
    /\ content_type = "text/html"
    /\ response = <<>>
    /\ file_size = 0
    /\ extend_headers = [isNone |-> TRUE, list |-> <<>>]
    /\ hdr = 1
    /\ sent = <<>>
    /\ fault = "none"

NextParser ==
    \/ GetRequestMethod
    \/ GetRequestPath
    \/ GetRequestQueryString
    \/ GetRequestQueryParams
    \/ GetRequestPostParams
    \/ GetRequestBody
    \/ ParseQueryString
    \/ Unquote

SpecParser == InitParser /\ [][NextParser]_vars

---------------------------------------------------------------------------
(* Request parser: properties.  What a claim says a function returns is    *)
(* written out from the claim, by indices into the input, and not with the *)
(* operators that model the functions.                                     *)

Called(name) == fn = name

\* The indices of s that hold a character of class C.
IndicesOf(s, C) == {i \in 1..Len(s) : s[i] \in C}

\* The first line of the request under test: what precedes the first CR LF.
Line ==
    LET ends == {i \in 1..(Len(arg.text) - 1) : SubSeq(arg.text, i, i + 1) = CRLF}
    IN  IF ends = {} THEN arg.text ELSE SubSeq(arg.text, 1, SetMin(ends) - 1)

\* The first line has the form METHOD SP PATH[?QUERY] SP VERSION: two
\* spaces and no other whitespace, an uppercase METHOD, a PATH of groups of
\* "/" followed by characters of [-a-zA-Z0-9_.], a VERSION.
LineSpaces == IndicesOf(Line, {"SP"})

LineMethod == SubSeq(Line, 1, SetMin(LineSpaces) - 1)

LineTarget == SubSeq(Line, SetMin(LineSpaces) + 1, SetMax(LineSpaces) - 1)

LinePath ==
    LET marks == IndicesOf(LineTarget, {"?"})
    IN  IF marks = {} THEN LineTarget
        ELSE SubSeq(LineTarget, 1, SetMin(marks) - 1)

WellFormedLine ==
    /\ arg.kind = "request"
    /\ Cardinality(LineSpaces) = 2
    /\ IndicesOf(Line, Whitespace) = LineSpaces
    /\ LineMethod # <<>>
    /\ Range(LineMethod) \subseteq Upper
    /\ LinePath # <<>>
    /\ LinePath[1] = "/"
    /\ Range(LinePath) \subseteq PathChar \cup {"/"}
    /\ SetMax(LineSpaces) < Len(Line)

\* C3: on a request whose first line is METHOD SP PATH[?QUERY] SP VERSION,
\* get_request_path returns the whole PATH and get_request_method returns
\* METHOD.
C3_WholePath ==
    WellFormedLine
        => /\ Called("get_request_path") => ret = Str(LinePath)
           /\ Called("get_request_method") => ret = Str(LineMethod)

\* The tokens of the query string s between its "&", by index.
TokenBounds(s) ==
    LET amps == IndicesOf(s, {"&"})
    IN  {<<a, b>> \in (1..(Len(s) + 1)) \X (0..Len(s)) :
            /\ a - 1 \in amps \cup {0}
            /\ b + 1 \in amps \cup {Len(s) + 1}
            /\ a <= b + 1
            /\ \A k \in a..b : s[k] # "&"}

TokenKey(s, t) ==
    LET eqs == {k \in t[1]..t[2] : s[k] = "="}
    IN  IF eqs = {} THEN SubSeq(s, t[1], t[2])
        ELSE SubSeq(s, t[1], SetMin(eqs) - 1)

\* All the text after the first "=" of the token, "" without any "=".
TokenValue(s, t) ==
    LET eqs == {k \in t[1]..t[2] : s[k] = "="}
    IN  IF eqs = {} THEN <<>>
        ELSE SubSeq(s, SetMin(eqs) + 1, t[2])

\* The reference mapping of C4: each key with the value of its last token.
ReferenceMapping(s) ==
    IF s = <<>> THEN EmptyMap
    ELSE LET toks == TokenBounds(s)
             keys == {TokenKey(s, t) : t \in toks}
         IN  [k \in keys |->
                LET last == CHOOSE t \in toks :
                                /\ TokenKey(s, t) = k
                                /\ \A o \in toks : TokenKey(s, o) = k => o[1] <= t[1]
                IN  TokenValue(s, last)]

\* C4: parse_query_string(s) is the reference mapping: tokens between "&",
\* each split once at its first "=", value "" without "=", the last
\* occurrence of a key kept, nothing percent-decoded.
C4_SplitOnce ==
    Called("parse_query_string")
        => ret.tag = "dict" /\ ret.map = ReferenceMapping(arg.text)

HexDigits == <<"0", "1", "2", "3", "4", "5", "6", "7",
               "8", "9", "a", "b", "c", "d", "e", "f">>

HexDigitsUpper == <<"0", "1", "2", "3", "4", "5", "6", "7",
                    "8", "9", "A", "B", "C", "D", "E", "F">>

IsHexDigit(c) == c \in Range(HexDigits) \cup Range(HexDigitsUpper)

HexDigitValue(c) ==
    (CHOOSE i \in 1..16 : c \in {HexDigits[i], HexDigitsUpper[i]}) - 1

\* The "%" at index i of s starts a well-formed escape %XX.
WellFormedEscape(s, i) ==
    /\ i + 2 <= Len(s)
    /\ IsHexDigit(s[i + 1])
    /\ IsHexDigit(s[i + 2])

HasMalformedEscape(s) ==
    \E i \in 1..Len(s) : s[i] = "%" /\ ~WellFormedEscape(s, i)

\* The character of a decoded byte; the bytes above 0x7F are no characters
\* on their own.
ByteChar(b) == IF b < 128 THEN Ascii[b + 1] ELSE "NONASCII"

\* The decoding C5 describes, from index i on: a well-formed %XX becomes
\* its byte, a malformed "%" stays a literal "%" and what follows it is
\* kept as it is.
RECURSIVE TotalDecode(_, _)
TotalDecode(s, i) ==
    IF i > Len(s) THEN <<>>
    ELSE IF s[i] = "%" /\ WellFormedEscape(s, i)
    THEN <<ByteChar(16 * HexDigitValue(s[i + 1]) + HexDigitValue(s[i + 2]))>>
         \o TotalDecode(s, i + 3)
    ELSE <<s[i]>> \o TotalDecode(s, i + 1)

\* C5: on an input with a malformed escape unquote raises nothing and
\* returns the input with that escape kept literally and the well-formed
\* escapes decoded.
C5_TotalOnMalformed ==
    (Called("unquote") /\ HasMalformedEscape(arg.text))
        => ret = Str(TotalDecode(arg.text, 1))

\* The indices at which the separator CR LF CR LF starts in the request.
Separators ==
    {p \in 1..(Len(arg.text) - 3) : SubSeq(arg.text, p, p + 3) = CRLF \o CRLF}

\* Everything after the first separator, to the end of the buffer.
BodyAfterSeparator == SubSeq(arg.text, SetMin(Separators) + 4, Len(arg.text))

StartsWithMethod == Line # <<>> /\ Line[1] \in Upper

\* The method token: the uppercase letters the first line starts with.
ParsedMethod ==
    LET others == {i \in 1..Len(Line) : Line[i] \notin Upper}
    IN  IF others = {} THEN Line ELSE SubSeq(Line, 1, SetMin(others) - 1)

\* C6: on a request that starts with a method token,
\* get_request_post_params returns None exactly when that method differs
\* from expected_method, and otherwise parse_query_string of the request
\* body: the empty mapping, without a fault, when there is no separator.
C6_PostParams ==
    (Called("get_request_post_params") /\ StartsWithMethod)
        => IF ParsedMethod # arg.expected THEN ret = None
           ELSE IF Separators = {} THEN ret = Dict(EmptyMap)
           ELSE ret = parse_query_string(Str(BodyAfterSeparator))

\* C7: get_request_body returns everything after the first separator, line
\* breaks included, and an empty mapping when there is no separator.  When
\* nothing follows the separator, the empty string the claim asks for and
\* the empty mapping are both let pass.
C7_WholeBody ==
    Called("get_request_body")
        => IF Separators = {} THEN ret = Dict(EmptyMap)
           ELSE IF BodyAfterSeparator = <<>> THEN ret \in {Str(<<>>), Dict(EmptyMap)}
           ELSE ret = Str(BodyAfterSeparator)

QuestionMarks == IndicesOf(Line, {"?"})

\* The whitespace of the first line after its first "?".
WhitespaceAfterMark ==
    {i \in IndicesOf(Line, Whitespace) : i > SetMin(QuestionMarks)}

\* C8: get_request_query_string returns the characters of the first line
\* after the "?" up to the next whitespace character, and "" when the line
\* has no "?"; get_request_query_params then returns the empty mapping.
C8_UpToNextWhitespace ==
    /\ (Called("get_request_query_string") /\ QuestionMarks = {})
          => ret = Str(<<>>)
    /\ (Called("get_request_query_params") /\ QuestionMarks = {})
          => ret = Dict(EmptyMap)
    /\ (/\ Called("get_request_query_string")
        /\ QuestionMarks # {}
        /\ WhitespaceAfterMark # {})
          => ret = Str(SubSeq(Line, SetMin(QuestionMarks) + 1,
                              SetMin(WhitespaceAfterMark) - 1))

============================================================================
